---- MODULE Spec2Model ----
(***************************************************************************)
(* Model of frame/election-provider-support (lib.rs): the bound calculus   *)
(* (CountBound, SizeBound, DataProviderBounds, ElectionBoundsBuilder),     *)
(* IndexAssignment::new and ElectionProviderBase::desired_targets_checked. *)
(*                                                                         *)
(* Option<T> is a sequence of length at most one (None = <<>>,             *)
(* Some(v) = <<v>>); Result<T, E> is a record with an `ok` flag.           *)
(***************************************************************************)
EXTENDS Integers, Sequences, FiniteSets, TLC

VARIABLES
    dpb,        \* DataProviderBounds: the receiver (`self`) of the bound calculus
    call,       \* the last call made on `dpb`: its name, arguments and return value
    applied,    \* the bounds composed into `dpb` by successive max calls, in order
    builder,    \* ElectionBoundsBuilder { voters, targets }
    bcall,      \* the last call made on the builder, with the builder it was made on
    dimset,     \* the dimensions assigned since the builder was constructed
    assignment, \* Assignment { who, distribution } handed to IndexAssignment::new
    voter_index,  \* the voter lookup closure, AccountId -> Option<VoterIndex>
    target_index, \* the target lookup closure, AccountId -> Option<TargetIndex>
    ia_result,  \* what IndexAssignment::new returned
    max_winners,  \* MaxWinners::get()
    dp_desired,   \* what DataProvider::desired_targets() returns
    dt_result,  \* what desired_targets_checked() returned
    dp_calls,   \* how often DataProvider::desired_targets() has been invoked
    ne_result,  \* the last call made on NoElection and what it returned
    list,       \* the sorted list: its members with their scores, in iter() order
    list_count, \* the sorted list's stored member counter, which count() reports
    lcall,      \* the last call made on the sorted list, with the list it was made on
    ep_ongoing, \* the election provider's state: TRUE = Ongoing, FALSE = Idle
    ep_snapshot,  \* the provider's snapshot of the data provider, None when it has none
    ep_result,  \* the last call made on the election provider and what it returned
    twin,       \* a second builder, given the same calls as `builder`
    ks_store,   \* BeefyKeystore.0: None, or the key pairs the keystore holds
    kcall       \* the last call made on the BeefyKeystore and what it returned

vars == <<dpb, call, applied, builder, bcall, dimset, assignment, voter_index,
          target_index, ia_result, max_winners, dp_desired, dt_result, dp_calls,
          ne_result, list, list_count, lcall, ep_ongoing, ep_snapshot, ep_result, twin,
          ks_store, kcall>>

boundsVars == <<dpb, call, applied>>
builderVars == <<builder, bcall, dimset, twin>>
indexVars == <<assignment, voter_index, target_index, ia_result>>
electVars == <<max_winners, dp_desired, dt_result, dp_calls, ne_result>>
listVars == <<list, list_count, lcall>>
providerVars == <<ep_ongoing, ep_snapshot, ep_result>>
keystoreVars == <<ks_store, kcall>>

(***************************************************************************)
(* Option and Result                                                       *)
(***************************************************************************)
None == <<>>
Some(v) == <<v>>
IsSome(o) == Len(o) = 1
IsNone(o) == Len(o) = 0
Unwrap(o) == o[1]
Option(S) == {None} \cup {Some(v) : v \in S}

Ok(v) == [ok |-> TRUE, val |-> v]
Err(e) == [ok |-> FALSE, err |-> e]

\* No call made yet.
NoCall == [op |-> "none"]

\* The parts of the state a specification does not exercise stay at these values.
BoundsIdle ==
    /\ dpb = [count |-> None, size |-> None]
    /\ call = NoCall
    /\ applied = <<>>

BuilderIdle ==
    /\ builder = [voters |-> None, targets |-> None]
    /\ bcall = NoCall
    /\ dimset = {}
    /\ twin = [voters |-> None, targets |-> None]

IndexIdle ==
    /\ assignment = [who |-> "A", distribution |-> <<>>]
    /\ voter_index = [a \in {"A"} |-> None]
    /\ target_index = [a \in {"A"} |-> None]
    /\ ia_result = NoCall

ElectIdle ==
    /\ max_winners = 0
    /\ dp_desired = Ok(0)
    /\ dt_result = NoCall
    /\ dp_calls = 0
    /\ ne_result = NoCall

ListIdle ==
    /\ list = <<>>
    /\ list_count = 0
    /\ lcall = NoCall

ProviderIdle ==
    /\ ep_ongoing = FALSE
    /\ ep_snapshot = None
    /\ ep_result = NoCall

KeystoreIdle ==
    /\ ks_store = None
    /\ kcall = NoCall

(***************************************************************************)
(* CountBound(u32), SizeBound(u32)                                         *)
(***************************************************************************)
\* u32::MAX. TLC's integers are 32-bit signed, so the top of the u32 range
\* (4294967295) is modelled by the largest integer TLC represents; arithmetic
\* below is written so that no intermediate value exceeds it.
U32Max == 2147483647

\* The values the model draws for counts and sizes; both ends of u32 are in.
CountVals == {0, 10, 20, 50, U32Max}
SizeVals == {0, 5, U32Max}

\* u32::saturating_add
saturating_add(a, b) == IF a > U32Max - b THEN U32Max ELSE a + b

\* A plausible slip: wrapping_add where saturating_add was meant.
CountBound_add_wrapping(a, b) == IF a > U32Max - b THEN a - (U32Max - b) - 1 ELSE a + b

\* impl Add for CountBound / SizeBound
CountBound_add(a, b) == saturating_add(a, b)
SizeBound_add(a, b) == saturating_add(a, b)

\* impl Zero for CountBound / SizeBound
CountBound_zero == 0
SizeBound_zero == 0

\* Zero::is_zero: self.0 == 0
CountBound_is_zero(self) == self = 0
SizeBound_is_zero(self) == self = 0

\* Ord::clamp: panics (modelled as the out-of-range value -1) when lo > hi.
clamp(v, lo, hi) ==
    IF lo > hi THEN -1
    ELSE IF v < lo THEN lo
    ELSE IF v > hi THEN hi
    ELSE v

(***************************************************************************)
(* DataProviderBounds { count: Option<CountBound>, size: Option<SizeBound> }*)
(***************************************************************************)
DataProviderBounds == [count : Option(CountVals), size : Option(SizeVals)]

new_unbounded == [count |-> None, size |-> None]

\* #[derive(Default)] on DataProviderBounds: Option's default is None.
DataProviderBounds_default == [count |-> None, size |-> None]

\* A plausible slip: >= instead of >.
count_exhausted_ge(self, given_count) ==
    IF IsNone(self.count) THEN FALSE ELSE given_count >= Unwrap(self.count)

\* self.count.map_or(false, |count| given_count > count)
count_exhausted(self, given_count) ==
    IF IsNone(self.count) THEN FALSE ELSE given_count > Unwrap(self.count)

\* self.size.map_or(false, |size| given_size > size)
size_exhausted(self, given_size) ==
    IF IsNone(self.size) THEN FALSE ELSE given_size > Unwrap(self.size)

\* A plausible slip: an absent observation counted as maximal instead of zero.
exhausted_absent_is_max(self, given_size, given_count) ==
    \/ count_exhausted(self, IF IsSome(given_count) THEN Unwrap(given_count) ELSE U32Max)
    \/ size_exhausted(self, IF IsSome(given_size) THEN Unwrap(given_size) ELSE U32Max)

\* count_exhausted(given_count.unwrap_or(zero)) || size_exhausted(given_size.unwrap_or(zero))
exhausted(self, given_size, given_count) ==
    \/ count_exhausted(self, IF IsSome(given_count) THEN Unwrap(given_count) ELSE CountBound_zero)
    \/ size_exhausted(self, IF IsSome(given_size) THEN Unwrap(given_size) ELSE SizeBound_zero)

\* One field of max: self.f.map(|c| c.clamp(zero, bounds.f.unwrap_or(MAX))).or(bounds.f)
max_field(mine, theirs, zero) ==
    LET mapped == IF IsSome(mine)
                  THEN Some(clamp(Unwrap(mine), zero,
                                  IF IsSome(theirs) THEN Unwrap(theirs) ELSE U32Max))
                  ELSE None
    IN  IF IsSome(mapped) THEN mapped ELSE theirs

\* A plausible slip: a set field of self is kept as it is, never capped.
max_keeps_self(self, bounds) ==
    [count |-> IF IsSome(self.count) THEN self.count ELSE bounds.count,
     size  |-> IF IsSome(self.size) THEN self.size ELSE bounds.size]

\* A plausible slip: the trailing .or(bounds.f) forgotten.
max_without_or(self, bounds) ==
    [count |-> IF IsSome(self.count)
               THEN max_field(self.count, bounds.count, CountBound_zero) ELSE None,
     size  |-> IF IsSome(self.size)
               THEN max_field(self.size, bounds.size, SizeBound_zero) ELSE None]

\* A plausible slip, going by the name: per field the larger of two set bounds.
max_takes_larger(self, bounds) ==
    LET larger(mine, theirs) ==
            IF IsNone(mine) THEN theirs
            ELSE IF IsNone(theirs) THEN mine
            ELSE IF Unwrap(mine) >= Unwrap(theirs) THEN mine ELSE theirs
    IN  [count |-> larger(self.count, bounds.count),
         size  |-> larger(self.size, bounds.size)]

\* DataProviderBounds::max
max(self, bounds) ==
    [count |-> max_field(self.count, bounds.count, CountBound_zero),
     size  |-> max_field(self.size, bounds.size, SizeBound_zero)]

(***************************************************************************)
(* The bound calculus called on one DataProviderBounds value.              *)
(***************************************************************************)
InitBounds ==
    /\ dpb \in DataProviderBounds
    /\ call = NoCall
    /\ applied = <<>>
    /\ BuilderIdle /\ IndexIdle /\ ElectIdle /\ ListIdle /\ ProviderIdle /\ KeystoreIdle

CallCountExhausted ==
    \E k \in CountVals :
        /\ call' = [op |-> "count_exhausted", given |-> k, ret |-> count_exhausted(dpb, k)]
        /\ UNCHANGED <<dpb, applied, builderVars, indexVars, electVars, listVars, providerVars, keystoreVars>>

CallSizeExhausted ==
    \E k \in SizeVals :
        /\ call' = [op |-> "size_exhausted", given |-> k, ret |-> size_exhausted(dpb, k)]
        /\ UNCHANGED <<dpb, applied, builderVars, indexVars, electVars, listVars, providerVars, keystoreVars>>

CallExhausted ==
    \E gs \in Option(SizeVals), gc \in Option(CountVals) :
        /\ call' = [op |-> "exhausted", given_size |-> gs, given_count |-> gc,
                    ret |-> exhausted(dpb, gs, gc)]
        /\ UNCHANGED <<dpb, applied, builderVars, indexVars, electVars, listVars, providerVars, keystoreVars>>

CallMax ==
    \E b \in DataProviderBounds :
        /\ call' = [op |-> "max", bounds |-> b, ret |-> max(dpb, b)]
        /\ UNCHANGED <<dpb, applied, builderVars, indexVars, electVars, listVars, providerVars, keystoreVars>>

NextBounds == CallCountExhausted \/ CallSizeExhausted \/ CallExhausted \/ CallMax

SpecBounds == InitBounds /\ [][NextBounds]_vars

\* C1: count_exhausted(CountBound(k)) is true iff count = Some(n) and k > n, so
\* k = n is not exhausted and count = None never is; size_exhausted is the same
\* on the size field.
C1_ExhaustedIffAboveBound ==
    /\ call.op = "count_exhausted" =>
          (call.ret <=> (IsSome(dpb.count) /\ call.given > Unwrap(dpb.count)))
    /\ call.op = "size_exhausted" =>
          (call.ret <=> (IsSome(dpb.size) /\ call.given > Unwrap(dpb.size)))

\* count_exhausted was asked with the given value equal to the bound.
C1_Witness ==
    /\ call.op = "count_exhausted"
    /\ IsSome(dpb.count)
    /\ call.given = Unwrap(dpb.count)
    /\ call.ret = FALSE

\* C2: exhausted(given_size, given_count) is the OR of the two checks with an
\* absent given value read as zero, so an omitted count never trips the count
\* bound and an omitted size never trips the size bound, Some(0) included.
C2_ExhaustedAbsentIsZero ==
    call.op = "exhausted" =>
        LET gc == call.given_count
            gs == call.given_size
            countTripped == /\ IsSome(gc)
                            /\ IsSome(dpb.count)
                            /\ Unwrap(gc) > Unwrap(dpb.count)
            sizeTripped == /\ IsSome(gs)
                           /\ IsSome(dpb.size)
                           /\ Unwrap(gs) > Unwrap(dpb.size)
        IN  /\ call.ret <=> (countTripped \/ sizeTripped)
            /\ call.ret <=>
                  \/ count_exhausted(dpb, IF IsSome(gc) THEN Unwrap(gc) ELSE 0)
                  \/ size_exhausted(dpb, IF IsSome(gs) THEN Unwrap(gs) ELSE 0)

\* exhausted was asked without a count on a bound of Some(0), and did not trip.
C2_Witness ==
    /\ call.op = "exhausted"
    /\ IsNone(call.given_count)
    /\ IsNone(call.given_size)
    /\ dpb.count = Some(0)
    /\ dpb.size = Some(0)
    /\ call.ret = FALSE

\* v clamped into [0, hi], for v >= 0.
ClampedInto(v, hi) == IF v > hi THEN hi ELSE v

\* What the claim says one field of max is.
C3_Field(mine, theirs) ==
    IF IsSome(mine)
    THEN Some(ClampedInto(Unwrap(mine), IF IsSome(theirs) THEN Unwrap(theirs) ELSE U32Max))
    ELSE theirs

\* C3: max computes each field on its own: Some(v) becomes Some(v clamped into
\* [0, other's value or u32::MAX]), None becomes other's field; Some(50).max(Some(20))
\* = Some(20), None.max(Some(20)) = Some(20), Some(10).max(None) = Some(10),
\* None.max(None) = None.
C3_MaxPerField ==
    call.op = "max" =>
        /\ call.ret.count = C3_Field(dpb.count, call.bounds.count)
        /\ call.ret.size = C3_Field(dpb.size, call.bounds.size)
        /\ (dpb.count = Some(50) /\ call.bounds.count = Some(20)) => call.ret.count = Some(20)
        /\ (dpb.count = None /\ call.bounds.count = Some(20)) => call.ret.count = Some(20)
        /\ (dpb.count = Some(10) /\ call.bounds.count = None) => call.ret.count = Some(10)
        /\ (dpb.count = None /\ call.bounds.count = None) => call.ret.count = None

\* Some(50).max(Some(20)) was computed, with an unset size taking the other's.
C3_Witness ==
    /\ call.op = "max"
    /\ dpb.count = Some(50)
    /\ call.bounds.count = Some(20)
    /\ dpb.size = None
    /\ call.bounds.size = Some(5)
    /\ call.ret = [count |-> Some(20), size |-> Some(5)]

(***************************************************************************)
(* Repeated composition: a default bound capped by successive overrides,   *)
(* default.max(override_1).max(override_2)...                              *)
(***************************************************************************)
MaxFold == 3

InitFold ==
    /\ dpb \in DataProviderBounds
    /\ call = NoCall
    /\ applied = <<dpb>>
    /\ BuilderIdle /\ IndexIdle /\ ElectIdle /\ ListIdle /\ ProviderIdle /\ KeystoreIdle

ComposeMax ==
    \E b \in DataProviderBounds :
        /\ Len(applied) < MaxFold
        /\ dpb' = max(dpb, b)
        /\ applied' = Append(applied, b)
        /\ UNCHANGED <<call, builderVars, indexVars, electVars, listVars, providerVars, keystoreVars>>

NextFold == ComposeMax

SpecFold == InitFold /\ [][NextFold]_vars

\* a <= b on Option<u32> with None as "no limit".
LeOpt(a, b) == IsNone(b) \/ (IsSome(a) /\ Unwrap(a) <= Unwrap(b))

\* The most restrictive of a non-empty set of optional limits.
MostRestrictive(S) == CHOOSE m \in S : \A o \in S : LeOpt(m, o)

\* C4: max never loosens: whatever exhausts one of the composed bounds exhausts
\* the composition, and folding max over a sequence of bounds yields, per field,
\* the most restrictive limit among them.
C4_MaxNeverLoosens ==
    /\ \A i \in 1..Len(applied) :
         \A gs \in Option(SizeVals), gc \in Option(CountVals) :
            exhausted(applied[i], gs, gc) => exhausted(dpb, gs, gc)
    /\ dpb.count = MostRestrictive({applied[i].count : i \in 1..Len(applied)})
    /\ dpb.size = MostRestrictive({applied[i].size : i \in 1..Len(applied)})

\* Three bounds were composed; the limit came from an override, not the default.
C4_Witness ==
    /\ Len(applied) = 3
    /\ applied[1].count = None
    /\ applied[2].count = Some(50)
    /\ applied[3].count = Some(20)
    /\ dpb.count = Some(20)
    /\ exhausted(applied[2], None, Some(U32Max))

(***************************************************************************)
(* ElectionBounds { voters, targets } and                                  *)
(* ElectionBoundsBuilder { voters: Option<DataProviderBounds>,             *)
(*                         targets: Option<DataProviderBounds> }           *)
(***************************************************************************)

\* ElectionBoundsBuilder::new
ElectionBoundsBuilder_new == [voters |-> None, targets |-> None]

\* A plausible slip: the two sides taken from each other's field.
ElectionBoundsBuilder_from_swapped(bounds) ==
    [voters |-> Some(bounds.targets), targets |-> Some(bounds.voters)]

\* ElectionBoundsBuilder::from
ElectionBoundsBuilder_from(bounds) ==
    [voters |-> Some(bounds.voters), targets |-> Some(bounds.targets)]

\* self.voters.map_or(Some({count: Some(count), size: None}), |b| { b.count = Some(count); Some(b) })
voters_count(self, count) ==
    [self EXCEPT !.voters =
        IF IsNone(self.voters)
        THEN Some([count |-> Some(count), size |-> None])
        ELSE Some([Unwrap(self.voters) EXCEPT !.count = Some(count)])]

\* A plausible slip: the pair is created anew even when the side is set.
voters_size_resets_count(self, size) ==
    [self EXCEPT !.voters = Some([count |-> None, size |-> Some(size)])]

voters_size(self, size) ==
    [self EXCEPT !.voters =
        IF IsNone(self.voters)
        THEN Some([count |-> None, size |-> Some(size)])
        ELSE Some([Unwrap(self.voters) EXCEPT !.size = Some(size)])]

\* A plausible copy-and-paste slip: targets_count written into the voters side.
targets_count_on_voters(self, count) == voters_count(self, count)

targets_count(self, count) ==
    [self EXCEPT !.targets =
        IF IsNone(self.targets)
        THEN Some([count |-> Some(count), size |-> None])
        ELSE Some([Unwrap(self.targets) EXCEPT !.count = Some(count)])]

targets_size(self, size) ==
    [self EXCEPT !.targets =
        IF IsNone(self.targets)
        THEN Some([count |-> None, size |-> Some(size)])
        ELSE Some([Unwrap(self.targets) EXCEPT !.size = Some(size)])]

\* ElectionBoundsBuilder::voters / ::targets: overwrite the whole side.
voters(self, bounds) == [self EXCEPT !.voters = bounds]
targets(self, bounds) == [self EXCEPT !.targets = bounds]

\* A plausible slip: the ceiling is taken only while the side is unset.
voters_or_lower_keeps_set(self, ceiling) ==
    [self EXCEPT !.voters = IF IsNone(self.voters) THEN Some(ceiling) ELSE self.voters]

\* A plausible slip: the ceiling overwrites the side instead of capping it.
voters_or_lower_overwrites(self, ceiling) == [self EXCEPT !.voters = Some(ceiling)]

\* match self.voters { None => Some(voters), Some(v) => Some(v.max(voters)) }
voters_or_lower(self, ceiling) ==
    [self EXCEPT !.voters =
        IF IsNone(self.voters) THEN Some(ceiling)
        ELSE Some(max(Unwrap(self.voters), ceiling))]

targets_or_lower(self, ceiling) ==
    [self EXCEPT !.targets =
        IF IsNone(self.targets) THEN Some(ceiling)
        ELSE Some(max(Unwrap(self.targets), ceiling))]

\* Option::unwrap_or_default on Option<DataProviderBounds>
unwrap_or_default(o) == IF IsSome(o) THEN Unwrap(o) ELSE DataProviderBounds_default

\* A plausible slip: an unset side built as a zero bound instead of unbounded.
build_unset_is_zero(self) ==
    [voters  |-> IF IsSome(self.voters) THEN Unwrap(self.voters)
                 ELSE [count |-> Some(0), size |-> Some(0)],
     targets |-> IF IsSome(self.targets) THEN Unwrap(self.targets)
                 ELSE [count |-> Some(0), size |-> Some(0)]]

\* ElectionBoundsBuilder::build
build(self) ==
    [voters |-> unwrap_or_default(self.voters),
     targets |-> unwrap_or_default(self.targets)]

(***************************************************************************)
(* A builder driven through its fluent interface. `bcall` keeps the last   *)
(* call with the builder it was made on; `dimset` is the set of dimensions *)
(* assigned since the builder was constructed (from() assigns all four).   *)
(***************************************************************************)
Dimensions == {"voters.count", "voters.size", "targets.count", "targets.size"}

\* The values the builder is driven with.
BuilderCountVals == {0, 10, 20}
BuilderSizeVals == {5}
BuilderBounds == [count : Option(BuilderCountVals), size : Option(BuilderSizeVals)]

InitBuilder ==
    /\ builder = ElectionBoundsBuilder_new
    /\ bcall = NoCall
    /\ dimset = {}
    /\ twin = ElectionBoundsBuilder_new
    /\ BoundsIdle /\ IndexIdle /\ ElectIdle /\ ListIdle /\ ProviderIdle /\ KeystoreIdle

othersOfBuilder == <<boundsVars, indexVars, electVars, listVars, providerVars, keystoreVars, twin>>

BuilderNew ==
    /\ builder' = ElectionBoundsBuilder_new
    /\ bcall' = [op |-> "new"]
    /\ dimset' = {}
    /\ UNCHANGED othersOfBuilder

BuilderFrom ==
    \E b \in [voters : BuilderBounds, targets : BuilderBounds] :
        /\ builder' = ElectionBoundsBuilder_from(b)
        /\ bcall' = [op |-> "from", arg |-> b]
        /\ dimset' = Dimensions
        /\ UNCHANGED othersOfBuilder

VotersCount ==
    \E c \in BuilderCountVals :
        /\ builder' = voters_count(builder, c)
        /\ bcall' = [op |-> "voters_count", arg |-> c, self |-> builder]
        /\ dimset' = dimset \cup {"voters.count"}
        /\ UNCHANGED othersOfBuilder

VotersSize ==
    \E s \in BuilderSizeVals :
        /\ builder' = voters_size(builder, s)
        /\ bcall' = [op |-> "voters_size", arg |-> s, self |-> builder]
        /\ dimset' = dimset \cup {"voters.size"}
        /\ UNCHANGED othersOfBuilder

TargetsCount ==
    \E c \in BuilderCountVals :
        /\ builder' = targets_count(builder, c)
        /\ bcall' = [op |-> "targets_count", arg |-> c, self |-> builder]
        /\ dimset' = dimset \cup {"targets.count"}
        /\ UNCHANGED othersOfBuilder

TargetsSize ==
    \E s \in BuilderSizeVals :
        /\ builder' = targets_size(builder, s)
        /\ bcall' = [op |-> "targets_size", arg |-> s, self |-> builder]
        /\ dimset' = dimset \cup {"targets.size"}
        /\ UNCHANGED othersOfBuilder

Voters ==
    \E b \in Option(BuilderBounds) :
        /\ builder' = voters(builder, b)
        /\ bcall' = [op |-> "voters", arg |-> b, self |-> builder]
        /\ dimset' = dimset \cup {"voters.count", "voters.size"}
        /\ UNCHANGED othersOfBuilder

Targets ==
    \E b \in Option(BuilderBounds) :
        /\ builder' = targets(builder, b)
        /\ bcall' = [op |-> "targets", arg |-> b, self |-> builder]
        /\ dimset' = dimset \cup {"targets.count", "targets.size"}
        /\ UNCHANGED othersOfBuilder

VotersOrLower ==
    \E b \in BuilderBounds :
        /\ builder' = voters_or_lower(builder, b)
        /\ bcall' = [op |-> "voters_or_lower", arg |-> b, self |-> builder]
        /\ dimset' = dimset \cup {"voters.count", "voters.size"}
        /\ UNCHANGED othersOfBuilder

TargetsOrLower ==
    \E b \in BuilderBounds :
        /\ builder' = targets_or_lower(builder, b)
        /\ bcall' = [op |-> "targets_or_lower", arg |-> b, self |-> builder]
        /\ dimset' = dimset \cup {"targets.count", "targets.size"}
        /\ UNCHANGED othersOfBuilder

\* build() takes the builder by value (it is Copy) and leaves it as it was.
\* `after` is the call that preceded the build (kept over builds in a row).
Build ==
    /\ bcall' = [op |-> "build",
                 after |-> IF bcall.op = "build" THEN bcall.after ELSE bcall,
                 ret |-> build(builder)]
    /\ UNCHANGED <<builder, dimset, othersOfBuilder>>

NextBuilder ==
    \/ BuilderNew \/ BuilderFrom
    \/ VotersCount \/ VotersSize \/ TargetsCount \/ TargetsSize
    \/ Voters \/ Targets
    \/ VotersOrLower \/ TargetsOrLower
    \/ Build

SpecBuilder == InitBuilder /\ [][NextBuilder]_vars

\* The side of a built ElectionBounds, and the sub-bound, a setter is about.
SideOf(op) == IF op \in {"voters_count", "voters_size"} THEN "voters" ELSE "targets"
FieldOf(op) == IF op \in {"voters_count", "targets_count"} THEN "count" ELSE "size"
ExactSetters == {"voters_count", "voters_size", "targets_count", "targets_size"}

\* C5: each exact setter sets exactly its sub-bound to the supplied value,
\* creating the bound pair when it was absent: from any builder state,
\* voters_count(c).build().voters.count = Some(c), and likewise for voters_size,
\* targets_count and targets_size.
C5_ExactSetters ==
    (bcall.op = "build" /\ bcall.after.op \in ExactSetters) =>
        bcall.ret[SideOf(bcall.after.op)][FieldOf(bcall.after.op)] = Some(bcall.after.arg)

\* new().voters_count(CountBound(10)).build(): the pair was absent and is created.
C5_Witness ==
    /\ bcall.op = "build"
    /\ bcall.after.op = "voters_count"
    /\ bcall.after.arg = 10
    /\ bcall.after.self = ElectionBoundsBuilder_new
    /\ bcall.ret.voters.count = Some(10)

\* The side and the field of a dimension's name.
DimSide(d) == IF d \in {"voters.count", "voters.size"} THEN "voters" ELSE "targets"
DimField(d) == IF d \in {"voters.count", "targets.count"} THEN "count" ELSE "size"

\* C6: build() leaves every dimension never set on the builder unbounded (None):
\* new().build() is unbounded on both sides, and setting only one of voters and
\* targets leaves the other side unbounded.
C6_BuildDefaultsUnbounded ==
    bcall.op = "build" =>
        /\ \A d \in Dimensions \ dimset : bcall.ret[DimSide(d)][DimField(d)] = None
        /\ dimset = {} => bcall.ret = [voters |-> new_unbounded, targets |-> new_unbounded]

\* Only the voters count was set, and the build left the targets side unbounded.
C6_Witness ==
    /\ bcall.op = "build"
    /\ dimset = {"voters.count"}
    /\ bcall.ret.voters.count = Some(20)
    /\ bcall.ret.voters.size = None
    /\ bcall.ret.targets = new_unbounded

\* The side an or_lower call caps.
CappedSide(op) == IF op = "voters_or_lower" THEN "voters" ELSE "targets"

\* C7: voters_or_lower / targets_or_lower cap the side with the ceiling rather
\* than overwrite it: a field at or below the ceiling is kept, a field that is
\* higher or absent (None = maximum) becomes the ceiling's, so that afterwards
\* no field exceeds the ceiling's.
C7_OrLowerCaps ==
    bcall.op \in {"voters_or_lower", "targets_or_lower"} =>
        LET side == CappedSide(bcall.op)
            was == IF IsSome(bcall.self[side]) THEN Unwrap(bcall.self[side])
                   ELSE new_unbounded
            ceiling == bcall.arg
        IN  /\ IsSome(builder[side])
            /\ \A f \in {"count", "size"} :
                 LET now == Unwrap(builder[side])[f]
                 IN  /\ LeOpt(was[f], ceiling[f]) => now = was[f]
                     /\ ~LeOpt(was[f], ceiling[f]) => now = ceiling[f]
                     /\ LeOpt(now, ceiling[f])

\* A voters bound with a lower count and no size was capped by a ceiling with a
\* higher count and a size: the count is kept, the size is taken.
C7_Witness ==
    /\ bcall.op = "voters_or_lower"
    /\ bcall.self.voters = Some([count |-> Some(10), size |-> None])
    /\ bcall.arg = [count |-> Some(20), size |-> Some(5)]
    /\ builder.voters = Some([count |-> Some(10), size |-> Some(5)])

(***************************************************************************)
(* IndexAssignment::new                                                    *)
(*                                                                         *)
(* An Assignment is { who, distribution: Vec<(AccountId, P)> }; the two    *)
(* lookup closures are arbitrary partial maps from AccountId to an index.  *)
(***************************************************************************)
AccountIds == {"A", "B", "C"}

\* The largest index a lookup returns, and the longest distribution.
MaxIndex == 1
MaxDist == 2

\* Proportions, in percent.
Proportions == {30, 70}

Indices == 0..MaxIndex

SeqsUpTo(S, n) == UNION {[1..k -> S] : k \in 0..n}

Assignments ==
    [who : AccountIds, distribution : SeqsUpTo(AccountIds \X Proportions, MaxDist)]

Lookups == [AccountIds -> Option(Indices)]

\* impl<T> __OrInvalidIndex<T> for Option<T>: self.ok_or(Error::SolutionInvalidIndex)
or_invalid_index(o) == IF IsSome(o) THEN Ok(Unwrap(o)) ELSE Err("SolutionInvalidIndex")

\* .iter().map(|(target, proportion)| Some((target_index(target)?, *proportion)))
\*        .collect::<Option<Vec<_>>>()
collect_distribution(distribution, t_index) ==
    LET mapped == [i \in 1..Len(distribution) |->
                     IF IsSome(t_index[distribution[i][1]])
                     THEN Some(<<Unwrap(t_index[distribution[i][1]]), distribution[i][2]>>)
                     ELSE None]
    IN  IF \E i \in 1..Len(distribution) : IsNone(mapped[i])
        THEN None
        ELSE Some([i \in 1..Len(distribution) |-> Unwrap(mapped[i])])

\* A plausible slip: filter_map instead of map + collect::<Option<_>>, so that
\* an unmapped target is dropped from the distribution.
IndexAssignment_new_skips_unmapped(a, v_index, t_index) ==
    LET who == or_invalid_index(v_index[a.who])
        kept == SelectSeq(a.distribution, LAMBDA e : IsSome(t_index[e[1]]))
    IN  IF ~who.ok THEN Err(who.err)
        ELSE Ok([who |-> who.val,
                 distribution |-> Unwrap(collect_distribution(kept, t_index))])

\* A plausible slip: the targets looked up with the voters' closure.
IndexAssignment_new_voter_lookup(a, v_index, t_index) ==
    LET who == or_invalid_index(v_index[a.who])
        distribution == or_invalid_index(collect_distribution(a.distribution, v_index))
    IN  IF ~who.ok THEN Err(who.err)
        ELSE IF ~distribution.ok THEN Err(distribution.err)
        ELSE Ok([who |-> who.val, distribution |-> distribution.val])

\* IndexAssignment::new: each `?` returns the error at once.
IndexAssignment_new(a, v_index, t_index) ==
    LET who == or_invalid_index(v_index[a.who])
        distribution == or_invalid_index(collect_distribution(a.distribution, t_index))
    IN  IF ~who.ok THEN Err(who.err)
        ELSE IF ~distribution.ok THEN Err(distribution.err)
        ELSE Ok([who |-> who.val, distribution |-> distribution.val])

InitIndex ==
    /\ assignment \in Assignments
    /\ voter_index \in Lookups
    /\ target_index \in Lookups
    /\ ia_result = NoCall
    /\ BoundsIdle /\ BuilderIdle /\ ElectIdle /\ ListIdle /\ ProviderIdle /\ KeystoreIdle

CallIndexAssignmentNew ==
    /\ ia_result' = [op |-> "new",
                     ret |-> IndexAssignment_new(assignment, voter_index, target_index)]
    /\ UNCHANGED <<assignment, voter_index, target_index,
                   boundsVars, builderVars, electVars, listVars, providerVars, keystoreVars>>

NextIndex == CallIndexAssignmentNew

SpecIndex == InitIndex /\ [][NextIndex]_vars

\* Some identifier of the assignment has no index.
SomeUnmapped ==
    \/ IsNone(voter_index[assignment.who])
    \/ \E i \in 1..Len(assignment.distribution) :
          IsNone(target_index[assignment.distribution[i][1]])

\* C8: IndexAssignment::new fails with SolutionInvalidIndex whenever the voter or
\* any target of the distribution, at any position, is unmapped; it never
\* returns Ok with a dropped, defaulted or partly built distribution.
C8_UnmappedIsInvalidIndex ==
    ia_result.op = "new" =>
        /\ SomeUnmapped => ia_result.ret = Err("SolutionInvalidIndex")
        /\ ia_result.ret.ok =>
              /\ ~SomeUnmapped
              /\ Len(ia_result.ret.val.distribution) = Len(assignment.distribution)

\* The voter and the first target are mapped, the last target is not.
C8_Witness ==
    /\ ia_result.op = "new"
    /\ IsSome(voter_index[assignment.who])
    /\ Len(assignment.distribution) = 2
    /\ IsSome(target_index[assignment.distribution[1][1]])
    /\ IsNone(target_index[assignment.distribution[2][1]])
    /\ ia_result.ret = Err("SolutionInvalidIndex")

\* A lookup that gives no index to two identifiers.
Injective(index) ==
    \A a, b \in AccountIds : (IsSome(index[a]) /\ index[a] = index[b]) => a = b

\* The identifier a lookup gives index i to.
IdAt(index, i) == CHOOSE a \in AccountIds : index[a] = Some(i)

\* C9: when every identifier is mapped, IndexAssignment::new returns Ok with
\* who = voter_index(who) and a distribution of the same length and order whose
\* entry i is (target_index(target_i), proportion_i); with injective lookups,
\* mapping the indices back recovers the assignment.
C9_IndicesReplaceIdentifiers ==
    (ia_result.op = "new" /\ ~SomeUnmapped) =>
        LET d == assignment.distribution
            r == ia_result.ret
        IN  /\ r.ok
            /\ r.val.who = Unwrap(voter_index[assignment.who])
            /\ Len(r.val.distribution) = Len(d)
            /\ \A i \in 1..Len(d) :
                  r.val.distribution[i] = <<Unwrap(target_index[d[i][1]]), d[i][2]>>
            /\ (Injective(voter_index) /\ Injective(target_index)) =>
                  assignment =
                     [who |-> IdAt(voter_index, r.val.who),
                      distribution |->
                         [i \in 1..Len(d) |->
                            <<IdAt(target_index, r.val.distribution[i][1]),
                              r.val.distribution[i][2]>>]]

\* [(T1, 30%), (T2, 70%)] converted under injective lookups that differ.
C9_Witness ==
    /\ ia_result.op = "new"
    /\ ia_result.ret.ok
    /\ Injective(voter_index) /\ Injective(target_index)
    /\ voter_index # target_index
    /\ Len(assignment.distribution) = 2
    /\ assignment.distribution[1][2] = 30
    /\ assignment.distribution[2][2] = 70
    /\ assignment.distribution[1][1] # assignment.distribution[2][1]
    /\ ia_result.ret.val.distribution[1][1] # ia_result.ret.val.distribution[2][1]

(***************************************************************************)
(* ElectionProviderBase::desired_targets_checked                           *)
(*                                                                         *)
(* The data provider answers desired_targets() with Ok(u32) or with        *)
(* Err(reason); MaxWinners::get() is a configuration value.                *)
(***************************************************************************)
\* The largest MaxWinners and the largest desired-targets answer drawn, next
\* to u32::MAX.
TopMaxWinners == 5
TopDesired == 6

MaxWinnersVals == (0..TopMaxWinners) \cup {U32Max}
DesiredVals == (0..TopDesired) \cup {U32Max}

\* The reasons a data provider fails with.
Reasons == {"no targets", "snapshot unavailable"}

DesiredAnswers == {Ok(d) : d \in DesiredVals} \cup {Err(r) : r \in Reasons}

TooManyDesired == "desired_targets must not be greater than MaxWinners."

\* A plausible slip: < instead of <=.
desired_targets_checked_strict(desired, winners) ==
    IF ~desired.ok THEN desired
    ELSE IF desired.val < winners THEN Ok(desired.val)
    ELSE Err(TooManyDesired)

\* A plausible slip: the data provider's reason replaced by the fixed one.
desired_targets_checked_masks_reason(desired, winners) ==
    IF ~desired.ok THEN Err(TooManyDesired)
    ELSE IF desired.val <= winners THEN Ok(desired.val)
    ELSE Err(TooManyDesired)

\* Self::DataProvider::desired_targets().and_then(|d| if d <= MaxWinners::get()
\* { Ok(d) } else { Err("desired_targets must not be greater than MaxWinners.") })
desired_targets_checked(desired, winners) ==
    IF ~desired.ok THEN desired
    ELSE IF desired.val <= winners THEN Ok(desired.val)
    ELSE Err(TooManyDesired)

\* desired_targets_checked() invokes DataProvider::desired_targets() once, as
\* the receiver of and_then, whatever it answers.
desired_targets_invocations(desired) == 1

\* The reason every election call of NoElection fails with (the source quotes
\* the type's name with backquotes, which a TLA+ string cannot hold).
NoElectionReason == "NoElection cannot do anything."

\* <NoElection as ElectionProvider>::ongoing
NoElection_ongoing == FALSE

\* A plausible slip: an empty winner set instead of an error.
NoElection_elect_empty == Ok(<<>>)

\* <NoElection as ElectionProvider>::elect
NoElection_elect == Err(NoElectionReason)

\* <NoElection as InstantElectionProvider>::instant_elect: both forced bounds
\* are ignored.
NoElection_instant_elect(forced_input_voters_bound, forced_input_target_bound) ==
    Err(NoElectionReason)

\* How often the data provider is invoked within one run.
MaxDpCalls == 2

InitElect ==
    /\ max_winners \in MaxWinnersVals
    /\ dp_desired \in DesiredAnswers
    /\ dt_result = NoCall
    /\ dp_calls = 0
    /\ ne_result = NoCall
    /\ BoundsIdle /\ BuilderIdle /\ IndexIdle /\ ListIdle /\ ProviderIdle /\ KeystoreIdle

othersOfElect == <<boundsVars, builderVars, indexVars, listVars, providerVars, keystoreVars>>

\* The data provider's state moves on between calls.
DataProviderChanges ==
    \E d \in DesiredAnswers :
        /\ d # dp_desired
        /\ dp_desired' = d
        /\ UNCHANGED <<max_winners, dt_result, dp_calls, ne_result, othersOfElect>>

CallDesiredTargetsChecked ==
    /\ dp_calls < MaxDpCalls
    /\ dp_calls' = dp_calls + desired_targets_invocations(dp_desired)
    /\ dt_result' = [op |-> "desired_targets_checked",
                     desired |-> dp_desired,
                     asked |-> dp_calls' - dp_calls,
                     ret |-> desired_targets_checked(dp_desired, max_winners)]
    /\ UNCHANGED <<max_winners, dp_desired, ne_result, othersOfElect>>

CallNoElectionOngoing ==
    /\ ne_result' = [op |-> "ongoing", ret |-> NoElection_ongoing]
    /\ UNCHANGED <<max_winners, dp_desired, dt_result, dp_calls, othersOfElect>>

CallNoElectionElect ==
    /\ ne_result' = [op |-> "elect", ret |-> NoElection_elect]
    /\ UNCHANGED <<max_winners, dp_desired, dt_result, dp_calls, othersOfElect>>

CallNoElectionInstantElect ==
    \E vb \in BuilderBounds, tb \in BuilderBounds :
        /\ ne_result' = [op |-> "instant_elect", ret |-> NoElection_instant_elect(vb, tb)]
        /\ UNCHANGED <<max_winners, dp_desired, dt_result, dp_calls, othersOfElect>>

NextElect ==
    \/ DataProviderChanges
    \/ CallDesiredTargetsChecked
    \/ CallNoElectionOngoing
    \/ CallNoElectionElect
    \/ CallNoElectionInstantElect

SpecElect == InitElect /\ [][NextElect]_vars

\* C10: desired_targets_checked() returns Ok(d), the data provider's exact value,
\* when d <= MaxWinners (equality included), and fails with the fixed reason
\* when d > MaxWinners; every Ok result is at most MaxWinners (MaxWinners = 5:
\* 4 gives Ok(4), 6 gives the error).
C10_DesiredTargetsChecked ==
    (dt_result.op = "desired_targets_checked" /\ dt_result.desired.ok) =>
        LET d == dt_result.desired.val
        IN  /\ d <= max_winners => dt_result.ret = Ok(d)
            /\ d > max_winners => dt_result.ret = Err(TooManyDesired)
            /\ dt_result.ret.ok => dt_result.ret.val <= max_winners
            /\ (max_winners = 5 /\ d = 4) => dt_result.ret = Ok(4)
            /\ (max_winners = 5 /\ d = 6) => ~dt_result.ret.ok

\* The data provider asked for exactly MaxWinners targets and got them.
C10_Witness ==
    /\ dt_result.op = "desired_targets_checked"
    /\ max_winners = 5
    /\ dt_result.desired = Ok(5)
    /\ dt_result.ret = Ok(5)

\* C11: when DataProvider::desired_targets() returns Err(reason),
\* desired_targets_checked() returns Err with that same reason, whatever
\* MaxWinners is, and asks the data provider once only.
C11_ProviderErrorVerbatim ==
    (dt_result.op = "desired_targets_checked" /\ ~dt_result.desired.ok) =>
        /\ dt_result.ret = Err(dt_result.desired.err)
        /\ dt_result.ret.err \in Reasons
        /\ dt_result.asked = 1

\* The data provider failed while MaxWinners was 0, and its reason came back.
C11_Witness ==
    /\ dt_result.op = "desired_targets_checked"
    /\ dt_result.desired = Err("snapshot unavailable")
    /\ max_winners = 0
    /\ dt_result.ret = Err("snapshot unavailable")

\* What a NoElection call must have returned.
C12_Returned ==
    /\ ne_result.op = "ongoing" => ne_result.ret = FALSE
    /\ ne_result.op \in {"elect", "instant_elect"} =>
          /\ ~ne_result.ret.ok
          /\ ne_result.ret.err = "NoElection cannot do anything."

\* C12: for NoElection, after any sequence of calls, for every data-provider
\* content and every pair of forced bounds, ongoing() is false and elect() and
\* instant_elect(_, _) return the fixed "cannot do anything" error, never a
\* winner set, and no call consults the data provider.
C12_NoElectionDoesNothing ==
    /\ []C12_Returned
    /\ [][ne_result' # ne_result =>
            UNCHANGED <<dp_calls, dp_desired, dt_result, max_winners>>]_vars

\* elect() failed although the data provider could answer within MaxWinners.
C12_Witness ==
    /\ ne_result.op = "elect"
    /\ ~ne_result.ret.ok
    /\ dp_desired = Ok(4)
    /\ max_winners = 5
    /\ dp_calls = 1

(***************************************************************************)
(* SortedListProvider<AccountId>                                           *)
(*                                                                         *)
(* The trait declares iter, count, contains, on_insert, on_update,         *)
(* get_score, on_remove, unsafe_regenerate and unsafe_clear and provides   *)
(* on_increase and on_decrease. The declared operations are modelled as a  *)
(* list of (id, score) kept in descending order of score, with a stored    *)
(* member counter; the provided ones are translated from their bodies.     *)
(* A list value is a record [list, count]; a mutating operation returns    *)
(* its Result together with the list it leaves.                            *)
(***************************************************************************)
ListIds == {"A", "B", "C"}

\* Score::max_value() of the Score type the list is instantiated with.
ScoreMax == 15

\* The scores and the score changes the list is driven with.
ScoreArgs == {0, 5, 10}

\* <Score as Saturating>::saturating_add / saturating_sub, <Score as Zero>::is_zero
Score_saturating_add(a, b) == IF a > ScoreMax - b THEN ScoreMax ELSE a + b
Score_saturating_sub(a, b) == IF b > a THEN 0 ELSE a - b
Score_is_zero(a) == a = 0

Outcome(r, st) == [ret |-> r, st |-> st]

\* The unit value of Ok(()).
Unit == <<>>

\* iter(): the ids from the top of the list; every call starts afresh.
iter(st) == [i \in 1..Len(st.list) |-> st.list[i].id]

\* count(): the stored counter.
count(st) == st.count

contains(st, id) == \E i \in 1..Len(st.list) : st.list[i].id = id

get_score(st, id) ==
    IF contains(st, id)
    THEN Ok((CHOOSE r \in {st.list[i] : i \in 1..Len(st.list)} : r.id = id).score)
    ELSE Err("NodeNotFound")

\* The list with a node put behind the nodes of an equal or higher score.
InsertSorted(l, node) ==
    LET k == Cardinality({i \in 1..Len(l) : l[i].score >= node.score})
    IN  SubSeq(l, 1, k) \o <<node>> \o SubSeq(l, k + 1, Len(l))

WithoutId(l, id) == SelectSeq(l, LAMBDA r : r.id # id)

\* A plausible slip: inserting a member overwrites its score.
on_insert_upserts(st, id, score) ==
    Outcome(Ok(Unit),
            [list |-> InsertSorted(WithoutId(st.list, id), [id |-> id, score |-> score]),
             count |-> IF contains(st, id) THEN st.count ELSE st.count + 1])

\* on_insert: an error if the id is a member already.
on_insert(st, id, score) ==
    IF contains(st, id) THEN Outcome(Err("Duplicate"), st)
    ELSE Outcome(Ok(Unit),
                 [list |-> InsertSorted(st.list, [id |-> id, score |-> score]),
                  count |-> st.count + 1])

\* A plausible slip: the score is changed where the member stands.
on_update_in_place(st, id, score) ==
    IF ~contains(st, id) THEN Outcome(Err("NodeNotFound"), st)
    ELSE Outcome(Ok(Unit),
                 [list |-> [i \in 1..Len(st.list) |->
                              IF st.list[i].id = id THEN [id |-> id, score |-> score]
                              ELSE st.list[i]],
                  count |-> st.count])

\* on_update: repositions a member; an error if the id is no member.
on_update(st, id, score) ==
    IF ~contains(st, id) THEN Outcome(Err("NodeNotFound"), st)
    ELSE IF get_score(st, id).val = score THEN Outcome(Ok(Unit), st)
    ELSE Outcome(Ok(Unit),
                 [list |-> InsertSorted(WithoutId(st.list, id), [id |-> id, score |-> score]),
                  count |-> st.count])

\* on_remove: an error if the id is no member.
on_remove(st, id) ==
    IF ~contains(st, id) THEN Outcome(Err("NodeNotFound"), st)
    ELSE Outcome(Ok(Unit), [list |-> WithoutId(st.list, id), count |-> st.count - 1])

\* A plausible slip: a missing id is inserted with the increase as its score.
on_increase_inserts_missing(st, id, additional) ==
    LET old_score == get_score(st, id)
    IN  IF ~old_score.ok THEN on_insert(st, id, additional)
        ELSE on_update(st, id, Score_saturating_add(old_score.val, additional))

\* A plausible slip: a wrapping addition.
on_increase_wrapping(st, id, additional) ==
    LET old_score == get_score(st, id)
    IN  IF ~old_score.ok THEN Outcome(Err(old_score.err), st)
        ELSE on_update(st, id, (old_score.val + additional) % (ScoreMax + 1))

\* let old_score = Self::get_score(id)?;
\* Self::on_update(id, old_score.saturating_add(additional))
on_increase(st, id, additional) ==
    LET old_score == get_score(st, id)
    IN  IF ~old_score.ok THEN Outcome(Err(old_score.err), st)
        ELSE on_update(st, id, Score_saturating_add(old_score.val, additional))

\* A plausible slip: the zero check left out, every decrease is an update.
on_decrease_keeps_zero(st, id, decreased) ==
    LET old_score == get_score(st, id)
    IN  IF ~old_score.ok THEN Outcome(Err(old_score.err), st)
        ELSE on_update(st, id, Score_saturating_sub(old_score.val, decreased))

\* A plausible slip: a wrapping subtraction.
on_decrease_wrapping(st, id, decreased) ==
    LET old_score == get_score(st, id)
    IN  IF ~old_score.ok THEN Outcome(Err(old_score.err), st)
        ELSE LET new_score == (old_score.val + (ScoreMax + 1) - decreased) % (ScoreMax + 1)
             IN  IF Score_is_zero(new_score) THEN on_remove(st, id)
                 ELSE on_update(st, id, new_score)

\* let old_score = Self::get_score(id)?;
\* let new_score = old_score.saturating_sub(decreased);
\* if new_score.is_zero() { Self::on_remove(id) } else { Self::on_update(id, new_score) }
on_decrease(st, id, decreased) ==
    LET old_score == get_score(st, id)
    IN  IF ~old_score.ok THEN Outcome(Err(old_score.err), st)
        ELSE LET new_score == Score_saturating_sub(old_score.val, decreased)
             IN  IF Score_is_zero(new_score) THEN on_remove(st, id)
                 ELSE on_update(st, id, new_score)

\* The trait methods on_increase calls, in order: `?` returns at a failed
\* get_score, before on_update.
on_increase_calls(st, id, additional) ==
    IF ~get_score(st, id).ok THEN <<"get_score">>
    ELSE <<"get_score", "on_update">>

\* The trait methods on_decrease calls, in order.
on_decrease_calls(st, id, decreased) ==
    IF ~get_score(st, id).ok THEN <<"get_score">>
    ELSE IF Score_is_zero(Score_saturating_sub(get_score(st, id).val, decreased))
         THEN <<"get_score", "on_remove">>
         ELSE <<"get_score", "on_update">>

EmptyList == [list |-> <<>>, count |-> 0]

\* unsafe_clear: empties the list.
unsafe_clear(st) == EmptyList

\* The ids of `all` inserted one by one; an id met again is passed over.
RECURSIVE insert_all(_, _, _)
insert_all(st, all, score_of) ==
    IF all = <<>> THEN st
    ELSE insert_all(on_insert(st, Head(all), score_of[Head(all)]).st, Tail(all), score_of)

\* A plausible slip: the old list is not removed before the new one is written.
unsafe_regenerate_keeps_old(st, all, score_of) ==
    LET rebuilt == insert_all(st, all, score_of)
    IN  Outcome(rebuilt.count - st.count, rebuilt)

\* unsafe_regenerate: the list rebuilt from `all`; returns the count inserted.
unsafe_regenerate(st, all, score_of) ==
    LET rebuilt == insert_all(unsafe_clear(st), all, score_of)
    IN  Outcome(rebuilt.count, rebuilt)

\* The longest enumeration handed to unsafe_regenerate.
MaxAll == 2

\* The scoring functions handed to unsafe_regenerate: one score for all, and
\* distinct scores with a zero among them.
ScoreFns ==
    {[id \in ListIds |-> 10],
     [id \in ListIds |-> IF id = "A" THEN 5 ELSE IF id = "B" THEN 10 ELSE 0]}

TheList == [list |-> list, count |-> list_count]

InitList ==
    /\ list = <<>>
    /\ list_count = 0
    /\ lcall = NoCall
    /\ BoundsIdle /\ BuilderIdle /\ IndexIdle /\ ElectIdle /\ ProviderIdle /\ KeystoreIdle

othersOfList == <<boundsVars, builderVars, indexVars, electVars, providerVars, keystoreVars>>

\* The list takes the state an operation leaves; the call is kept, with the
\* trait methods it went through.
AppliedThrough(op, id, arg, out, calls) ==
    /\ list' = out.st.list
    /\ list_count' = out.st.count
    /\ lcall' = [op |-> op, id |-> id, arg |-> arg, self |-> TheList, ret |-> out.ret,
                 calls |-> calls]
    /\ UNCHANGED othersOfList

Applied(op, id, arg, out) == AppliedThrough(op, id, arg, out, <<op>>)

OnInsert ==
    \E id \in ListIds, score \in ScoreArgs :
        Applied("on_insert", id, score, on_insert(TheList, id, score))

OnUpdate ==
    \E id \in ListIds, score \in ScoreArgs :
        Applied("on_update", id, score, on_update(TheList, id, score))

OnIncrease ==
    \E id \in ListIds, additional \in ScoreArgs :
        AppliedThrough("on_increase", id, additional, on_increase(TheList, id, additional),
                       on_increase_calls(TheList, id, additional))

OnDecrease ==
    \E id \in ListIds, decreased \in ScoreArgs :
        AppliedThrough("on_decrease", id, decreased, on_decrease(TheList, id, decreased),
                       on_decrease_calls(TheList, id, decreased))

OnRemove ==
    \E id \in ListIds :
        Applied("on_remove", id, Unit, on_remove(TheList, id))

UnsafeRegenerate ==
    \E all \in SeqsUpTo(ListIds, MaxAll), score_of \in ScoreFns :
        Applied("unsafe_regenerate", all, score_of,
                unsafe_regenerate(TheList, all, score_of))

UnsafeClear ==
    Applied("unsafe_clear", Unit, Unit, Outcome(Unit, unsafe_clear(TheList)))

\* A full traversal; the list is left as it is.
Iter ==
    Applied("iter", Unit, Unit, Outcome(iter(TheList), TheList))

NextList ==
    \/ OnInsert \/ OnUpdate \/ OnIncrease \/ OnDecrease \/ OnRemove
    \/ UnsafeRegenerate \/ UnsafeClear \/ Iter

SpecList == InitList /\ [][NextList]_vars

\* The members of a list value, and a member's score.
Members(st) == {id \in ListIds : contains(st, id)}
ScoreOf(st, id) == get_score(st, id).val

OthersKept(id) ==
    \A o \in ListIds \ {id} :
        /\ o \in Members(TheList) <=> o \in Members(lcall.self)
        /\ o \in Members(TheList) => ScoreOf(TheList, o) = ScoreOf(lcall.self, o)

\* C14: on_decrease(id, delta) on a member with score s: if s saturating-minus
\* delta is zero (every delta >= s) the member is removed, contains(id) is false
\* and count() drops by one; otherwise the member stays with score s - delta.
C14_DecreaseRemovesAtZero ==
    (lcall.op = "on_decrease" /\ lcall.id \in Members(lcall.self)) =>
        LET s == ScoreOf(lcall.self, lcall.id)
            delta == lcall.arg
        IN  /\ lcall.ret = Ok(Unit)
            /\ OthersKept(lcall.id)
            /\ delta >= s =>
                  /\ ~contains(TheList, lcall.id)
                  /\ count(TheList) = count(lcall.self) - 1
            /\ delta < s =>
                  /\ get_score(TheList, lcall.id) = Ok(s - delta)
                  /\ count(TheList) = count(lcall.self)

\* on_insert(A, 10) then on_decrease(A, 10): count() is 0 and iter() is empty.
C14_Witness ==
    /\ lcall.op = "on_decrease"
    /\ lcall.id = "A"
    /\ lcall.arg = 10
    /\ lcall.self = [list |-> <<[id |-> "A", score |-> 10]>>, count |-> 1]
    /\ count(TheList) = 0
    /\ iter(TheList) = <<>>

\* C15: on_increase(id, delta) on a member with score s leaves get_score(id) =
\* min(s + delta, MAX), never wrapped, and membership and count() as they were.
C15_IncreaseSaturates ==
    (lcall.op = "on_increase" /\ lcall.id \in Members(lcall.self)) =>
        LET s == ScoreOf(lcall.self, lcall.id)
            sum == s + lcall.arg
        IN  /\ lcall.ret = Ok(Unit)
            /\ get_score(TheList, lcall.id) = Ok(IF sum > ScoreMax THEN ScoreMax ELSE sum)
            /\ Members(TheList) = Members(lcall.self)
            /\ count(TheList) = count(lcall.self)
            /\ OthersKept(lcall.id)

\* on_insert(A, 10) then on_increase(A, 5): get_score(A) is 15.
C15_Witness ==
    /\ lcall.op = "on_increase"
    /\ lcall.id = "A"
    /\ lcall.arg = 5
    /\ lcall.self = [list |-> <<[id |-> "A", score |-> 10]>>, count |-> 1]
    /\ get_score(TheList, "A") = Ok(15)

\* C16: list-mutation errors are reported and never corrected: on_insert of a
\* member fails, on_update and on_remove of a non-member fail, and a failed call
\* leaves membership, scores and count() as they were.
C16_ErrorsLeaveListUnchanged ==
    /\ (lcall.op = "on_insert" /\ lcall.id \in Members(lcall.self)) =>
          lcall.ret = Err("Duplicate")
    /\ (lcall.op \in {"on_update", "on_remove"} /\ lcall.id \notin Members(lcall.self)) =>
          lcall.ret = Err("NodeNotFound")
    /\ (lcall.op \in {"on_insert", "on_update", "on_remove"} /\ ~lcall.ret.ok) =>
          TheList = lcall.self

\* on_insert(A, 10) then on_insert(A, 5): the second fails and A keeps 10.
C16_Witness ==
    /\ lcall.op = "on_insert"
    /\ lcall.id = "A"
    /\ lcall.arg = 5
    /\ lcall.ret = Err("Duplicate")
    /\ get_score(TheList, "A") = Ok(10)
    /\ count(TheList) = 1

Range(seq) == {seq[i] : i \in 1..Len(seq)}

\* C18: unsafe_regenerate(all, score_of) rebuilds the list whatever it held:
\* count() equals the returned count and the members are the ids of `all` with
\* scores score_of(id); unsafe_clear() leaves count() = 0 and iter() empty.
C18_RegenerateAndClear ==
    /\ lcall.op = "unsafe_regenerate" =>
          /\ count(TheList) = lcall.ret
          /\ Len(iter(TheList)) = lcall.ret
          /\ Members(TheList) = Range(lcall.id)
          /\ \A id \in Members(TheList) : ScoreOf(TheList, id) = lcall.arg[id]
    /\ lcall.op = "unsafe_clear" =>
          /\ count(TheList) = 0
          /\ iter(TheList) = <<>>

\* A list holding C was regenerated from A and B only.
C18_Witness ==
    /\ lcall.op = "unsafe_regenerate"
    /\ "C" \in Members(lcall.self)
    /\ lcall.id = <<"A", "B">>
    /\ lcall.ret = 2
    /\ iter(TheList) = <<"B", "A">>

(***************************************************************************)
(* Arithmetic of CountBound and SizeBound: Add and Zero.                   *)
(***************************************************************************)
\* Operands: both ends of u32 and values whose sums fall on each side of MAX.
ArithVals == {0, 1, 10, 50, U32Max - 50, U32Max - 10, U32Max - 1, U32Max}

InitArith ==
    /\ dpb = new_unbounded
    /\ call = NoCall
    /\ applied = <<>>
    /\ BuilderIdle /\ IndexIdle /\ ElectIdle /\ ListIdle /\ ProviderIdle /\ KeystoreIdle

othersOfArith == <<dpb, applied, builderVars, indexVars, electVars, listVars, providerVars, keystoreVars>>

CallCountBoundAdd ==
    \E a \in ArithVals, b \in ArithVals :
        /\ call' = [op |-> "add", ty |-> "CountBound", self |-> a, rhs |-> b,
                    ret |-> CountBound_add(a, b)]
        /\ UNCHANGED othersOfArith

CallSizeBoundAdd ==
    \E a \in ArithVals, b \in ArithVals :
        /\ call' = [op |-> "add", ty |-> "SizeBound", self |-> a, rhs |-> b,
                    ret |-> SizeBound_add(a, b)]
        /\ UNCHANGED othersOfArith

CallCountBoundIsZero ==
    \E a \in ArithVals \cup {CountBound_zero} :
        /\ call' = [op |-> "is_zero", ty |-> "CountBound", self |-> a,
                    ret |-> CountBound_is_zero(a)]
        /\ UNCHANGED othersOfArith

CallSizeBoundIsZero ==
    \E a \in ArithVals \cup {SizeBound_zero} :
        /\ call' = [op |-> "is_zero", ty |-> "SizeBound", self |-> a,
                    ret |-> SizeBound_is_zero(a)]
        /\ UNCHANGED othersOfArith

NextArith ==
    CallCountBoundAdd \/ CallSizeBoundAdd \/ CallCountBoundIsZero \/ CallSizeBoundIsZero

SpecArith == InitArith /\ [][NextArith]_vars

ZeroOf(ty) == IF ty = "CountBound" THEN CountBound_zero ELSE SizeBound_zero

\* C19: a + b on CountBound and on SizeBound is min(a + b, u32::MAX): the exact
\* sum when it fits in u32, u32::MAX when it does not, always a u32 (no wrap,
\* no panic); zero() is the identity on both sides; is_zero() holds exactly
\* for 0.
C19_AddSaturatesZeroIdentity ==
    /\ call.op = "add" =>
          /\ call.ret \in 0..U32Max
          /\ IF call.self <= U32Max - call.rhs
             THEN call.ret = call.self + call.rhs
             ELSE call.ret = U32Max
          /\ call.ret >= call.self /\ call.ret >= call.rhs
          /\ call.rhs = ZeroOf(call.ty) => call.ret = call.self
          /\ call.self = ZeroOf(call.ty) => call.ret = call.rhs
    /\ call.op = "is_zero" => (call.ret <=> call.self = 0)

\* Two non-maximal operands whose sum exceeds u32::MAX have been added.
C19_Witness ==
    /\ call.op = "add"
    /\ call.self < U32Max /\ call.rhs < U32Max
    /\ call.self > U32Max - call.rhs
    /\ call.ret = U32Max

(***************************************************************************)
(* ElectionProvider: the Idle / Ongoing provider the trait describes.      *)
(* The trait declares ongoing() and elect() only; the provider below is    *)
(* the one the specification describes, with desired_targets_checked and   *)
(* the solver's Result as the places an election can fail.                 *)
(***************************************************************************)
\* The target lists a snapshot can hold.
Snapshots == {<<"A">>, <<"A", "B">>, <<"A", "B", "C">>}

SolverFailed == "solver failed"

\* The provider's own state: Idle is ongoing = FALSE with no snapshot held.
TheProvider == [ongoing |-> ep_ongoing, snapshot |-> ep_snapshot]

\* fn ongoing() -> bool
ElectionProvider_ongoing(self) == self.ongoing

\* An asynchronous election starts: the snapshot is fetched ahead of time.
ElectionProvider_prepare(self, fetched) == [ongoing |-> TRUE, snapshot |-> Some(fetched)]

\* The writes of one elect(), in order, as the step stages them: the snapshot
\* is consumed first, then the desired count is checked, then the solver runs,
\* and only a solved election moves the provider to Idle.
elect_staged(self, desired, winners, fetched, solved) ==
    LET electable == IF IsSome(self.snapshot) THEN Unwrap(self.snapshot) ELSE fetched
        consumed == [self EXCEPT !.snapshot = None]
        checked  == desired_targets_checked(desired, winners)
    IN  IF ~checked.ok THEN [ret |-> Err(checked.err), staged |-> consumed]
        ELSE IF ~solved THEN [ret |-> Err(SolverFailed), staged |-> consumed]
        ELSE [ret |-> Ok(SubSeq(electable, 1,
                                IF checked.val < Len(electable) THEN checked.val
                                ELSE Len(electable))),
              staged |-> [consumed EXCEPT !.ongoing = FALSE]]

\* A plausible slip: the staged writes of a failed election are committed.
ElectionProvider_elect_commits_on_failure(self, desired, winners, fetched, solved) ==
    LET r == elect_staged(self, desired, winners, fetched, solved)
    IN  [ret |-> r.ret, state |-> r.staged]

\* fn elect() -> Result<BoundedSupportsOf<Self>, Self::Error>: the staged
\* writes commit with the step when it succeeds and are dropped when it fails.
ElectionProvider_elect(self, desired, winners, fetched, solved) ==
    LET r == elect_staged(self, desired, winners, fetched, solved)
    IN  [ret |-> r.ret, state |-> IF r.ret.ok THEN r.staged ELSE self]

InitProvider ==
    /\ max_winners \in MaxWinnersVals
    /\ dp_desired \in DesiredAnswers
    /\ dt_result = NoCall
    /\ dp_calls = 0
    /\ ne_result = NoCall
    /\ ep_ongoing = FALSE
    /\ ep_snapshot = None
    /\ ep_result = NoCall
    /\ BoundsIdle /\ BuilderIdle /\ IndexIdle /\ ListIdle /\ KeystoreIdle

othersOfProvider == <<boundsVars, builderVars, indexVars, electVars, listVars, keystoreVars>>

ProviderOngoing ==
    /\ ep_result' = [op |-> "ongoing", self |-> TheProvider,
                     ret |-> ElectionProvider_ongoing(TheProvider)]
    /\ UNCHANGED <<ep_ongoing, ep_snapshot, othersOfProvider>>

ProviderPrepare ==
    \E fetched \in Snapshots :
        LET next == ElectionProvider_prepare(TheProvider, fetched)
        IN  /\ ~ep_ongoing
            /\ ep_ongoing' = next.ongoing
            /\ ep_snapshot' = next.snapshot
            /\ ep_result' = [op |-> "prepare", self |-> TheProvider, ret |-> Unit]
            /\ UNCHANGED othersOfProvider

ProviderElect ==
    \E fetched \in Snapshots, solved \in BOOLEAN :
        LET out == ElectionProvider_elect(TheProvider, dp_desired, max_winners,
                                          fetched, solved)
        IN  /\ ep_ongoing' = out.state.ongoing
            /\ ep_snapshot' = out.state.snapshot
            /\ ep_result' = [op |-> "elect", self |-> TheProvider, ret |-> out.ret]
            /\ UNCHANGED othersOfProvider

NextProvider == DataProviderChanges \/ ProviderOngoing \/ ProviderPrepare \/ ProviderElect

SpecProvider == InitProvider /\ [][NextProvider]_vars

\* C20: the provider is in one of two states, Idle or Ongoing, which ongoing()
\* reports; after a successful elect() it is Idle with its snapshot consumed;
\* after a failed elect() its state is the one before the call; and no state
\* shows part of a step (a consumed snapshot with the election still Ongoing,
\* or a snapshot held while Idle).
C20_TwoStatesAtomicElect ==
    /\ ep_ongoing \in BOOLEAN
    /\ ep_ongoing <=> IsSome(ep_snapshot)
    /\ ep_result.op = "ongoing" => ep_result.ret = ep_ongoing
    /\ (ep_result.op = "elect" /\ ep_result.ret.ok) =>
          ~ep_ongoing /\ ep_snapshot = None
    /\ (ep_result.op = "elect" /\ ~ep_result.ret.ok) => TheProvider = ep_result.self

\* An election that was Ongoing has failed, and the snapshot is still held.
C20_Witness ==
    /\ ep_result.op = "elect"
    /\ ~ep_result.ret.ok
    /\ ep_result.self.ongoing
    /\ ep_ongoing /\ IsSome(ep_snapshot)

\* C22: on_increase and on_decrease on an id that is no member return the error
\* of get_score(id), call neither on_update nor on_remove, and leave the list
\* (members, scores, count) as it was; the id is not inserted.
C22_WrappersOnMissingId ==
    (lcall.op \in {"on_increase", "on_decrease"} /\ ~contains(lcall.self, lcall.id)) =>
        /\ ~lcall.ret.ok
        /\ lcall.ret = Err(get_score(lcall.self, lcall.id).err)
        /\ lcall.calls = <<"get_score">>
        /\ TheList = lcall.self
        /\ ~contains(TheList, lcall.id)
        /\ count(TheList) = count(lcall.self)

\* A wrapper was called with a positive change on an id missing from a list
\* that has other members.
C22_Witness ==
    /\ lcall.op \in {"on_increase", "on_decrease"}
    /\ ~contains(lcall.self, lcall.id)
    /\ lcall.arg > 0
    /\ count(lcall.self) > 0
    /\ ~lcall.ret.ok

(***************************************************************************)
(* DataProviderBounds::max as an operation on bounds: its algebra.         *)
(***************************************************************************)
InitMaxLaws ==
    /\ dpb \in DataProviderBounds
    /\ call = NoCall
    /\ applied = <<>>
    /\ BuilderIdle /\ IndexIdle /\ ElectIdle /\ ListIdle /\ ProviderIdle /\ KeystoreIdle

\* The bounds max is combined with: unset, zero, middling and maximal fields.
LawOperands == [count : Option({0, 20, U32Max}), size : Option({5, U32Max})]

\* max called on dpb and two more bounds, in both orders and both groupings,
\* on dpb with itself, and with new_unbounded() on either side.
CallMaxCombined ==
    \E b \in LawOperands, c \in LawOperands :
        /\ call' = [op |-> "max_combined", a |-> dpb, b |-> b, c |-> c,
                    ab |-> max(dpb, b), ba |-> max(b, dpb),
                    ab_c |-> max(max(dpb, b), c), a_bc |-> max(dpb, max(b, c)),
                    aa |-> max(dpb, dpb),
                    au |-> max(dpb, new_unbounded), ua |-> max(new_unbounded, dpb)]
        /\ UNCHANGED <<dpb, applied, builderVars, indexVars, electVars, listVars, providerVars, keystoreVars>>

NextMaxLaws == CallMaxCombined

SpecMaxLaws == InitMaxLaws /\ [][NextMaxLaws]_vars

\* The smaller of two optional bounds, None standing for no bound at all.
MinOpt(x, y) ==
    IF IsNone(x) THEN y
    ELSE IF IsNone(y) THEN x
    ELSE IF Unwrap(x) <= Unwrap(y) THEN x ELSE y

\* C23: max is, field by field, the minimum of its operands with None as
\* infinity; it is commutative, associative and idempotent, new_unbounded()
\* is its identity on both sides, and clamp never panics (no result field is
\* the out-of-range value).
C23_MaxIsMeet ==
    call.op = "max_combined" =>
        /\ call.ab = [count |-> MinOpt(call.a.count, call.b.count),
                      size  |-> MinOpt(call.a.size, call.b.size)]
        /\ call.ab = call.ba
        /\ call.ab_c = call.a_bc
        /\ call.aa = call.a
        /\ call.au = call.a /\ call.ua = call.a
        /\ \A r \in {call.ab, call.ba, call.ab_c, call.a_bc, call.aa, call.au, call.ua} :
              /\ IsSome(r.count) => (Unwrap(r.count) >= 0 /\ Unwrap(r.count) <= U32Max)
              /\ IsSome(r.size) => (Unwrap(r.size) >= 0 /\ Unwrap(r.size) <= U32Max)

\* Three bounds that differ pairwise, with set and unset fields on both sides
\* of each call.
C23_Witness ==
    /\ call.op = "max_combined"
    /\ IsSome(call.a.count) /\ IsNone(call.a.size)
    /\ IsSome(call.b.count) /\ IsSome(call.b.size)
    /\ Unwrap(call.b.count) < Unwrap(call.a.count)
    /\ IsSome(call.c.size) /\ Unwrap(call.c.size) < Unwrap(call.b.size)
    /\ call.ab_c = [count |-> call.b.count, size |-> call.c.size]

(***************************************************************************)
(* Two builders given the same calls: `builder` starts from new(), `twin`  *)
(* from from(ElectionBounds) with both sides new_unbounded().              *)
(***************************************************************************)
UnboundedElectionBounds == [voters |-> new_unbounded, targets |-> new_unbounded]

InitTwin ==
    /\ builder = ElectionBoundsBuilder_new
    /\ twin = ElectionBoundsBuilder_from(UnboundedElectionBounds)
    /\ bcall = NoCall
    /\ dimset = {}
    /\ BoundsIdle /\ IndexIdle /\ ElectIdle /\ ListIdle /\ ProviderIdle /\ KeystoreIdle

othersOfTwin == <<boundsVars, indexVars, electVars, listVars, providerVars, keystoreVars>>

\* One call made on both builders.
BothApplied(op, arg, b, t, dims) ==
    /\ builder' = b
    /\ twin' = t
    /\ bcall' = [op |-> op, arg |-> arg, self |-> builder]
    /\ dimset' = dimset \cup dims
    /\ UNCHANGED othersOfTwin

TwinVotersCount ==
    \E c \in BuilderCountVals :
        BothApplied("voters_count", c, voters_count(builder, c), voters_count(twin, c),
                    {"voters.count"})

TwinVotersSize ==
    \E sz \in BuilderSizeVals :
        BothApplied("voters_size", sz, voters_size(builder, sz), voters_size(twin, sz),
                    {"voters.size"})

TwinTargetsCount ==
    \E c \in BuilderCountVals :
        BothApplied("targets_count", c, targets_count(builder, c), targets_count(twin, c),
                    {"targets.count"})

TwinTargetsSize ==
    \E sz \in BuilderSizeVals :
        BothApplied("targets_size", sz, targets_size(builder, sz), targets_size(twin, sz),
                    {"targets.size"})

TwinVotersOrLower ==
    \E b \in BuilderBounds :
        BothApplied("voters_or_lower", b, voters_or_lower(builder, b),
                    voters_or_lower(twin, b), {"voters.count", "voters.size"})

TwinTargetsOrLower ==
    \E b \in BuilderBounds :
        BothApplied("targets_or_lower", b, targets_or_lower(builder, b),
                    targets_or_lower(twin, b), {"targets.count", "targets.size"})

TwinBuild ==
    /\ bcall' = [op |-> "build", ret |-> build(builder), twin_ret |-> build(twin)]
    /\ UNCHANGED <<builder, twin, dimset, othersOfTwin>>

NextTwin ==
    \/ TwinVotersCount \/ TwinVotersSize \/ TwinTargetsCount \/ TwinTargetsSize
    \/ TwinVotersOrLower \/ TwinTargetsOrLower
    \/ TwinBuild

SpecTwin == InitTwin /\ [][NextTwin]_vars

\* C24: after any sequence of voters_count, voters_size, targets_count,
\* targets_size, voters_or_lower and targets_or_lower, the builder started with
\* new() and the one started with from(both sides new_unbounded()) build the
\* same ElectionBounds.
C24_UnsetIsUnbounded ==
    /\ build(builder) = build(twin)
    /\ bcall.op = "build" => bcall.ret = bcall.twin_ret

\* Both were built after calls on the voters side only: the targets side is
\* still unset in one and unbounded in the other, the voters side is capped.
C24_Witness ==
    /\ bcall.op = "build"
    /\ IsNone(builder.targets) /\ twin.targets = Some(new_unbounded)
    /\ "voters.count" \in dimset
    /\ IsSome(bcall.ret.voters.count) /\ IsSome(bcall.ret.voters.size)

\* The count and the size a builder holds on one side; an unset side holds none.
CountOf(side) == IF IsSome(side) THEN Unwrap(side).count ELSE None
SizeOf(side) == IF IsSome(side) THEN Unwrap(side).size ELSE None

VotersCalls == {"voters_count", "voters_size", "voters", "voters_or_lower"}
TargetsCalls == {"targets_count", "targets_size", "targets", "targets_or_lower"}

\* C25: a voters_* call leaves the targets side as it was and a targets_* call
\* the voters side; voters_count/targets_count leave the size of their side
\* and voters_size/targets_size its count as it was; and from every builder
\* reached, count-then-size and size-then-count build the same bounds.
C25_SettersFramed ==
    /\ bcall.op \in VotersCalls => builder.targets = bcall.self.targets
    /\ bcall.op \in TargetsCalls => builder.voters = bcall.self.voters
    /\ bcall.op = "voters_count" => SizeOf(builder.voters) = SizeOf(bcall.self.voters)
    /\ bcall.op = "voters_size" => CountOf(builder.voters) = CountOf(bcall.self.voters)
    /\ bcall.op = "targets_count" => SizeOf(builder.targets) = SizeOf(bcall.self.targets)
    /\ bcall.op = "targets_size" => CountOf(builder.targets) = CountOf(bcall.self.targets)
    /\ \A c \in BuilderCountVals, sz \in BuilderSizeVals :
          /\ build(voters_size(voters_count(builder, c), sz))
               = build(voters_count(voters_size(builder, sz), c))
          /\ build(targets_size(targets_count(builder, c), sz))
               = build(targets_count(targets_size(builder, sz), c))

\* voters_size was called on a builder whose voters count and targets side
\* were set, and both are still there.
C25_Witness ==
    /\ bcall.op = "voters_size"
    /\ IsSome(CountOf(bcall.self.voters))
    /\ IsNone(SizeOf(bcall.self.voters))
    /\ IsSome(bcall.self.targets) /\ IsSome(CountOf(bcall.self.targets))
    /\ CountOf(builder.voters) = CountOf(bcall.self.voters)
    /\ IsSome(SizeOf(builder.voters))
    /\ builder.targets = bcall.self.targets

\* C26: from(b).build() equals b in all four fields, for every ElectionBounds
\* b, and build() leaves the builder as it was: a second build() in a row
\* returns the same bounds.
C26_FromBuildRoundTrip ==
    /\ bcall.op = "build" => bcall.ret = build(builder)
    /\ (bcall.op = "build" /\ bcall.after.op = "from") =>
          /\ bcall.ret.voters.count = bcall.after.arg.voters.count
          /\ bcall.ret.voters.size = bcall.after.arg.voters.size
          /\ bcall.ret.targets.count = bcall.after.arg.targets.count
          /\ bcall.ret.targets.size = bcall.after.arg.targets.size
          /\ builder = ElectionBoundsBuilder_from(bcall.after.arg)
    /\ bcall.op = "from" => build(builder) = bcall.arg

\* Bounds with set and unset fields were built right after from().
C26_Witness ==
    /\ bcall.op = "build"
    /\ bcall.after.op = "from"
    /\ IsSome(bcall.after.arg.voters.count) /\ IsNone(bcall.after.arg.voters.size)
    /\ IsNone(bcall.after.arg.targets.count) /\ IsSome(bcall.after.arg.targets.size)
    /\ bcall.ret = bcall.after.arg

(***************************************************************************)
(* BeefyKeystore(Option<KeystorePtr>)                                      *)
(* The keystore behind the pointer is any implementation of the Keystore   *)
(* trait: it holds private keys, named here by their public key and key    *)
(* type, and answers each call with one of the values its result type      *)
(* allows.                                                                 *)
(***************************************************************************)
Publics == {"Alice", "Bob", "Charlie"}

\* sp_consensus_beefy::KEY_TYPE, and another key type a keystore can hold.
KEY_TYPE == "beef"
KeyTypes == {KEY_TYPE, "test"}

\* Messages are byte strings: sequences, here of one piece of text each.
Messages == {<<"are you involved or committed?">>, <<"you are just involved">>}

\* The longest slice of keys handed to authority_id.
MaxKeys == 3

Keystores == SUBSET (Publics \X KeyTypes)

\* Keystore::has_keys: every listed (public, key type) pair is held.
has_keys(store, public_keys) == public_keys \subseteq store

\* sp_core::keccak_256: the digest stands for the message it was made of, and
\* is no message itself.
keccak_256(message) == <<"keccak_256">> \o message

\* An ECDSA signature: the key that made it and the digest it is over.
\* `convertible` is whether try_into() to the BEEFY signature type succeeds.
Signed(public, digest, convertible) ==
    [by |-> public, over |-> digest, convertible |-> convertible]

\* How the keystore behind the pointer answers a signing call.
Responses == {"answers", "fails", "garbles"}

KeystoreFailure == "keystore failure"

\* Keystore::ecdsa_sign_prehashed: Result<Option<ecdsa::Signature>, Error>.
\* None when the (key type, public) pair is not held.
ecdsa_sign_prehashed(store, key_type, public, msg, response) ==
    IF response = "fails" THEN Err(KeystoreFailure)
    ELSE IF <<public, key_type>> \notin store THEN Ok(None)
    ELSE Ok(Some(Signed(public, msg, response # "garbles")))

\* error::Error::Keystore(String) / error::Error::Signature(String)
Error_Keystore(text) == [kind |-> "Keystore", text |-> text]
Error_Signature(text) == [kind |-> "Signature", text |-> text]

NoKeystore == "no Keystore"
SignPrehashedFailed == "ecdsa_sign_prehashed() failed"
InvalidSignature == "invalid signature"

\* A plausible slip: the last matching key is returned instead of the first.
authority_id_last(self, keys) ==
    IF IsNone(self) THEN None
    ELSE LET store == Unwrap(self)
             public == SelectSeq(keys, LAMBDA k : has_keys(store, {<<k, KEY_TYPE>>}))
         IN  IF Len(public) > 0 THEN Some(public[Len(public)]) ELSE None

\* let store = self.0.clone()?;
\* keys.iter().filter(|k| store.has_keys(&[(k.to_raw_vec(), KEY_TYPE)])).cloned().collect();
\* public.get(0).cloned()
authority_id(self, keys) ==
    IF IsNone(self) THEN None
    ELSE LET store == Unwrap(self)
             public == SelectSeq(keys, LAMBDA k : has_keys(store, {<<k, KEY_TYPE>>}))
         IN  IF Len(public) > 0 THEN Some(public[1]) ELSE None

\* The warning authority_id logs: more than one of the keys has a private key.
authority_id_warns(self, keys) ==
    /\ IsSome(self)
    /\ Len(SelectSeq(keys, LAMBDA k : has_keys(Unwrap(self), {<<k, KEY_TYPE>>}))) > 1

\* The outcome of sign once the keystore has answered.
sign_answered(answer) ==
    IF ~answer.ok THEN Err(Error_Keystore(answer.err))
    ELSE IF IsNone(answer.val) THEN Err(Error_Signature(SignPrehashedFailed))
    ELSE IF ~Unwrap(answer.val).convertible THEN Err(Error_Signature(InvalidSignature))
    ELSE Ok(Unwrap(answer.val))

\* A plausible slip: the message itself is signed, not its keccak_256 digest.
sign_unhashed(self, public, message, response) ==
    IF IsNone(self) THEN Err(Error_Keystore(NoKeystore))
    ELSE sign_answered(ecdsa_sign_prehashed(Unwrap(self), KEY_TYPE, public, message, response))

\* BeefyKeystore::sign
sign(self, public, message, response) ==
    IF IsNone(self) THEN Err(Error_Keystore(NoKeystore))
    ELSE LET msg == keccak_256(message)
         IN  sign_answered(ecdsa_sign_prehashed(Unwrap(self), KEY_TYPE, public, msg, response))

\* BeefyKeystore::verify: BeefyAuthorityId::<Keccak256>::verify hashes the
\* message and checks the signature against the digest and the key.
verify(public, sig, message) ==
    /\ sig.by = public
    /\ sig.over = keccak_256(message)

InitKeystore ==
    /\ ks_store \in Option(Keystores)
    /\ kcall = NoCall
    /\ BoundsIdle /\ BuilderIdle /\ IndexIdle /\ ElectIdle /\ ListIdle /\ ProviderIdle

othersOfKeystore ==
    <<boundsVars, builderVars, indexVars, electVars, listVars, providerVars>>

CallAuthorityId ==
    \E keys \in SeqsUpTo(Publics, MaxKeys) :
        /\ kcall' = [op |-> "authority_id", self |-> ks_store, keys |-> keys,
                     warned |-> authority_id_warns(ks_store, keys),
                     ret |-> authority_id(ks_store, keys)]
        /\ UNCHANGED <<ks_store, othersOfKeystore>>

CallSign ==
    \E public \in Publics, message \in Messages, response \in Responses :
        /\ kcall' = [op |-> "sign", self |-> ks_store, public |-> public,
                     message |-> message,
                     response |-> IF IsSome(ks_store) THEN response ELSE "not asked",
                     ret |-> sign(ks_store, public, message, response)]
        /\ UNCHANGED <<ks_store, othersOfKeystore>>

CallVerify ==
    \E public \in Publics, signer \in Publics, signed \in Messages, message \in Messages :
        LET sig == Signed(signer, keccak_256(signed), TRUE)
        IN  /\ kcall' = [op |-> "verify", self |-> ks_store, public |-> public,
                         sig |-> sig, message |-> message,
                         ret |-> verify(public, sig, message)]
            /\ UNCHANGED <<ks_store, othersOfKeystore>>

NextKeystore == CallAuthorityId \/ CallSign \/ CallVerify

SpecKeystore == InitKeystore /\ [][NextKeystore]_vars

\* The keystore holds a private key of the BEEFY key type for a public key.
Held(self, k) == IsSome(self) /\ <<k, KEY_TYPE>> \in Unwrap(self)

\* C27: authority_id(keys) is None when there is no keystore or when none of
\* the keys has a private key of the BEEFY key type in it; otherwise it is
\* the first key, in the order of `keys`, that has one, also when several do.
C27_AuthorityIdFirstMatch ==
    kcall.op = "authority_id" =>
        LET keys == kcall.keys
            held(i) == Held(kcall.self, keys[i])
        IN  IF \A i \in 1..Len(keys) : ~held(i)
            THEN kcall.ret = None
            ELSE \E i \in 1..Len(keys) :
                    /\ held(i)
                    /\ \A j \in 1..(i - 1) : ~held(j)
                    /\ kcall.ret = Some(keys[i])

\* The first key is held under another key type only, the next two are both
\* held under the BEEFY key type, and the earlier of those two was returned.
C27_Witness ==
    /\ kcall.op = "authority_id"
    /\ Len(kcall.keys) = 3
    /\ ~Held(kcall.self, kcall.keys[1])
    /\ IsSome(kcall.self) /\ <<kcall.keys[1], "test">> \in Unwrap(kcall.self)
    /\ Held(kcall.self, kcall.keys[2]) /\ Held(kcall.self, kcall.keys[3])
    /\ kcall.keys[2] # kcall.keys[3]
    /\ kcall.warned
    /\ kcall.ret = Some(kcall.keys[2])

\* sign returned a signature that verify accepts for the key and the message
\* signed, and for no other message.
SignedAndVerifiable ==
    /\ kcall.ret.ok
    /\ kcall.ret.val.over = keccak_256(kcall.message)
    /\ verify(kcall.public, kcall.ret.val, kcall.message)
    /\ \A other \in Messages \ {kcall.message} :
          ~verify(kcall.public, kcall.ret.val, other)

\* C28 as claimed: sign fails with Keystore("no Keystore") without a keystore,
\* with Signature("ecdsa_sign_prehashed() failed") when the keystore holds no
\* private key for `public`, and in every other case returns a signature over
\* keccak_256(message) that verify accepts for the same key and message and
\* rejects for another message.
C28_SignOutcomesByKeyHeld ==
    kcall.op = "sign" =>
        /\ IsNone(kcall.self) => kcall.ret = Err(Error_Keystore(NoKeystore))
        /\ (IsSome(kcall.self) /\ ~Held(kcall.self, kcall.public)) =>
              kcall.ret = Err(Error_Signature(SignPrehashedFailed))
        /\ Held(kcall.self, kcall.public) => SignedAndVerifiable

\* C28, amended: the outcome also depends on how the keystore answers. sign
\* fails with Keystore("no Keystore") without a keystore; with Keystore(e) when
\* the keystore's signing call fails with e; with
\* Signature("ecdsa_sign_prehashed() failed") when the keystore answers and
\* holds no private key for `public`; with Signature("invalid signature ...")
\* when the signature it gives does not convert; and otherwise returns a
\* signature over keccak_256(message) that verify accepts for the same key and
\* message and rejects for another message.
C28_SignOutcomesByAnswer ==
    kcall.op = "sign" =>
        /\ IsNone(kcall.self) => kcall.ret = Err(Error_Keystore(NoKeystore))
        /\ (IsSome(kcall.self) /\ kcall.response = "fails") =>
              kcall.ret = Err(Error_Keystore(KeystoreFailure))
        /\ (IsSome(kcall.self) /\ kcall.response # "fails"
                /\ ~Held(kcall.self, kcall.public)) =>
              kcall.ret = Err(Error_Signature(SignPrehashedFailed))
        /\ (Held(kcall.self, kcall.public) /\ kcall.response = "garbles") =>
              kcall.ret = Err(Error_Signature(InvalidSignature))
        /\ (Held(kcall.self, kcall.public) /\ kcall.response = "answers") =>
              SignedAndVerifiable

\* A keystore that holds several keys has signed with one of them.
C28_Witness ==
    /\ kcall.op = "sign"
    /\ Held(kcall.self, kcall.public)
    /\ \E k \in Publics \ {kcall.public} : Held(kcall.self, k)
    /\ kcall.response = "answers"
    /\ kcall.ret.ok
    /\ kcall.ret.val.by = kcall.public

====
